---- MODULE Spec2Model ----
(***************************************************************************)
(* State-machine model of the PDFJSViewer React component.                 *)
(*                                                                         *)
(* Two variants of the component exist: the basic one (src/src/App.tsx)    *)
(* and the extended one (src/unnamed/part_000) that adds loading from a    *)
(* URL and a text layer.  The extended component is the basic one plus the *)
(* isLoadingUrl / urlError state and the loadPdfFromUrl handler; the       *)
(* variable `variant` selects which component is running.                  *)
(*                                                                         *)
(* Conventions                                                             *)
(*  - scale is kept in hundredths (1.0 is 100, 0.2 is 20, 0.25 is 25);     *)
(*    the arithmetic is exact, where the doubles of the code carry a       *)
(*    rounding error of a few ulps that Math.min/Math.max absorb at the    *)
(*    bounds.                                                              *)
(*  - A resolved getDocument promise carries a document of at least one    *)
(*    page (the library rejects a document whose first page is missing).   *)
(*  - A null document handle is NoDoc; a null urlError is NoError.         *)
(*  - All state setters called by one handler or one promise continuation  *)
(*    are committed together (React batches them), so each handler and     *)
(*    each continuation is one action.                                     *)
(*  - A control that is not mounted dispatches no event: the page, zoom    *)
(*    and rotation buttons exist only while pdfDoc is non-null.  The file  *)
(*    input is disabled while isLoadingUrl.  Handlers that are a no-op in  *)
(*    exactly the states in which their button is disabled (prev, next,    *)
(*    zoom, load-from-URL) are still modelled as invocable there: the      *)
(*    invocation leaves the program state unchanged.                       *)
(*  - reader.onload's `!e.target?.result` branch is not modelled: a        *)
(*    completed readAsArrayBuffer always yields an ArrayBuffer object.     *)
(*  - alert and lastOp are history variables: the alert raised by, and the *)
(*    code path taken by, the most recent step.  nextId numbers the loads  *)
(*    in the order they are started (a handle carries the number of the    *)
(*    load that produced it) and lastUrlId is the number of the most       *)
(*    recently started URL load.                                           *)
(*  - The renderer: renders holds the renderPage invocations in flight,    *)
(*    each with the values its closure captured and the promise it is      *)
(*    awaiting; canvas is the mounted canvas element (el counts the        *)
(*    mounts: the element exists only while pdfDoc is non-null) with the   *)
(*    page last rasterized into it; resizing the canvas clears it.  The    *)
(*    contents of the text layer are not tracked, only the await of the    *)
(*    text content.  An awaited library promise may be fulfilled or        *)
(*    rejected.  renderHist is a history variable: the *)
(*    number of handler commits, the highest invocation that has run a     *)
(*    continuation, whether an older invocation ran one after a newer one, *)
(*    and whether one failed.                                              *)
(*  - Spec leaves the renderer out (no render writes the view state);      *)
(*    SpecRender runs every handler together with the effect it triggers   *)
(*    and explores the behaviours of up to MaxCommits handler commits.     *)
(*    SpecZoom counts                                                      *)
(*    the zoomIn calls made in a row on a freshly loaded document.         *)
(***************************************************************************)
EXTENDS Integers, FiniteSets, Sequences, TLC

VARIABLES variant, pdfDoc, pageNum, totalPages, scale, rotation,
          isLoadingUrl, urlError, fileInputValue,
          fileLoads, urlLoads, nextId, lastUrlId, alert, lastOp,
          renders, canvas, nextRender, renderHist, zoomRun

viewState == <<pdfDoc, pageNum, totalPages, scale, rotation>>
loadStatus == <<isLoadingUrl, urlError>>
vars == <<variant, pdfDoc, pageNum, totalPages, scale, rotation,
          isLoadingUrl, urlError, fileInputValue,
          fileLoads, urlLoads, nextId, lastUrlId, alert, lastOp,
          renders, canvas, nextRender, renderHist, zoomRun>>
renderVars == <<renders, canvas, nextRender, renderHist>>

(* ---- bounds ---- *)
MaxLoads == 2
MaxPages == 2
MaxCommits == 1
MaxZoomRun == 11

(* ---- program constants (scale in hundredths) ---- *)
InitialScale == 100
ScaleStep == 20
MaxScale == 300
MinScale == 25
RotationStep == 90
FullTurn == 360

Variants == {"basic", "extended"}
NoDoc == [id |-> 0, numPages |-> 0]
NoError == "<null>"
NoAlert == "<none>"
testPdfUrl == "/test.pdf"
PdfMimeType == "application/pdf"

(* The file handed to the change event: none, or a file with a MIME type. *)
NoFile == [name |-> "", type |-> ""]
Files == {NoFile,
          [name |-> "a.pdf", type |-> "application/pdf"],
          [name |-> "a.txt", type |-> "text/plain"]}

(* What the rejected promise of getDocument(url) carries. *)
UrlFailures == {"MissingPDFException", "UnexpectedResponseException",
                "OtherError", "NotAnError"}

Min(a, b) == IF a < b THEN a ELSE b
Max(a, b) == IF a > b THEN a ELSE b

(* JavaScript's % : the result takes the sign of the dividend. *)
JsRem(a, b) == IF a >= 0 THEN a % b ELSE -((-a) % b)

Op(name) == [op |-> name, doc |-> NoDoc]
OpDoc(name, d) == [op |-> name, doc |-> d]

(* What a raster was made from. *)
Key(d, p, sc, ro) == [doc |-> d, page |-> p, scale |-> sc, rotation |-> ro]
Blank == Key(0, 0, 0, 0)
BlankCanvas(e) == [el |-> e, image |-> Blank]

Init ==
    /\ variant \in Variants
    /\ pdfDoc = NoDoc
    /\ pageNum = 1
    /\ totalPages = 0
    /\ scale = InitialScale
    /\ rotation = 0
    /\ isLoadingUrl = FALSE
    /\ urlError = NoError
    /\ fileInputValue = ""
    /\ fileLoads = {}
    /\ urlLoads = {}
    /\ nextId = 0
    /\ lastUrlId = 0
    /\ alert = NoAlert
    /\ lastOp = Op("init")
    /\ renders = {}
    /\ canvas = BlankCanvas(0)
    /\ nextRender = 0
    /\ renderHist = [commits |-> 0, maxStepped |-> 0, overlapped |-> FALSE,
                     failed |-> FALSE]
    /\ zoomRun = 0

(* ---- control surface ---- *)

ControlsMounted == pdfDoc # NoDoc

(* Variant: `>=` written for `>`. *)
PrevPageNum_OffByOne(p) == IF p >= 1 THEN p - 1 ELSE p

PrevPageNum(p) == IF p > 1 THEN p - 1 ELSE p

goToPrevPage ==
    /\ ControlsMounted
    /\ pageNum' = PrevPageNum(pageNum)
    /\ alert' = NoAlert
    /\ lastOp' = Op("goToPrevPage")
    /\ UNCHANGED <<variant, pdfDoc, totalPages, scale, rotation, isLoadingUrl,
                   urlError, fileInputValue, fileLoads, urlLoads, nextId, lastUrlId>>

(* Variant: the upper-bound test left out. *)
NextPageNum_NoGuard(p, total) == p + 1

NextPageNum(p, total) == IF p < total THEN p + 1 ELSE p

goToNextPage ==
    /\ ControlsMounted
    /\ pageNum' = NextPageNum(pageNum, totalPages)
    /\ alert' = NoAlert
    /\ lastOp' = Op("goToNextPage")
    /\ UNCHANGED <<variant, pdfDoc, totalPages, scale, rotation, isLoadingUrl,
                   urlError, fileInputValue, fileLoads, urlLoads, nextId, lastUrlId>>

(* Variant: Math.min left out. *)
ZoomInScale_NoClamp(s) == s + ScaleStep

(* Variant: a step of 0.1 written for 0.2. *)
ZoomInScale_HalfStep(s) == Min(s + 10, MaxScale)

ZoomInScale(s) == Min(s + ScaleStep, MaxScale)

zoomIn ==
    /\ ControlsMounted
    /\ scale' = ZoomInScale(scale)
    /\ alert' = NoAlert
    /\ lastOp' = Op("zoomIn")
    /\ UNCHANGED <<variant, pdfDoc, pageNum, totalPages, rotation, isLoadingUrl,
                   urlError, fileInputValue, fileLoads, urlLoads, nextId, lastUrlId>>

(* Variant: Math.max left out. *)
ZoomOutScale_NoClamp(s) == s - ScaleStep

ZoomOutScale(s) == Max(s - ScaleStep, MinScale)

zoomOut ==
    /\ ControlsMounted
    /\ scale' = ZoomOutScale(scale)
    /\ alert' = NoAlert
    /\ lastOp' = Op("zoomOut")
    /\ UNCHANGED <<variant, pdfDoc, pageNum, totalPages, rotation, isLoadingUrl,
                   urlError, fileInputValue, fileLoads, urlLoads, nextId, lastUrlId>>

(* Variant: the `% 360` left out. *)
RotateCW_NoWrap(r) == r + RotationStep

RotateCW(r) == JsRem(r + RotationStep, FullTurn)

rotateClockwise ==
    /\ ControlsMounted
    /\ rotation' = RotateCW(rotation)
    /\ alert' = NoAlert
    /\ lastOp' = Op("rotateClockwise")
    /\ UNCHANGED <<variant, pdfDoc, pageNum, totalPages, scale, isLoadingUrl,
                   urlError, fileInputValue, fileLoads, urlLoads, nextId, lastUrlId>>

(* Variant: the `+ 360` left out. *)
RotateCCW_NoWrap(r) == JsRem(r - RotationStep, FullTurn)

RotateCCW(r) == JsRem(r - RotationStep + FullTurn, FullTurn)

rotateCounterClockwise ==
    /\ ControlsMounted
    /\ rotation' = RotateCCW(rotation)
    /\ alert' = NoAlert
    /\ lastOp' = Op("rotateCounterClockwise")
    /\ UNCHANGED <<variant, pdfDoc, pageNum, totalPages, scale, isLoadingUrl,
                   urlError, fileInputValue, fileLoads, urlLoads, nextId, lastUrlId>>

(* ---- loader: local file ---- *)

IsValidPdfFile(file) == file # NoFile /\ file.type = PdfMimeType

(* The browser stores the selection in the input before the change event. *)
FileInputEnabled == ~isLoadingUrl

(* Variant: the URL status is cleared before the file is validated. *)
HandleFileChangeReject_ClearsStatus(file) ==
    /\ ~isLoadingUrl
    /\ ~(file # NoFile /\ file.type = PdfMimeType)
    /\ alert' = "Please select a valid PDF file"
    /\ fileInputValue' = ""
    /\ urlError' = NoError
    /\ isLoadingUrl' = FALSE
    /\ lastOp' = Op("handleFileChange:rejected")
    /\ UNCHANGED <<variant, pdfDoc, pageNum, totalPages, scale, rotation,
                   fileLoads, urlLoads, nextId, lastUrlId>>

(* handleFileChange, rejection branch: missing file or wrong MIME type. *)
HandleFileChangeReject(file) ==
    /\ FileInputEnabled
    /\ ~IsValidPdfFile(file)
    /\ alert' = "Please select a valid PDF file"
    /\ fileInputValue' = ""
    /\ lastOp' = Op("handleFileChange:rejected")
    /\ UNCHANGED <<variant, pdfDoc, pageNum, totalPages, scale, rotation,
                   isLoadingUrl, urlError, fileLoads, urlLoads, nextId, lastUrlId>>

(* Variant: setUrlError(null) left out. *)
HandleFileChangeAccept_KeepsUrlError(file) ==
    /\ ~isLoadingUrl
    /\ file # NoFile /\ file.type = PdfMimeType
    /\ nextId < MaxLoads
    /\ isLoadingUrl' = FALSE
    /\ fileInputValue' = file.name
    /\ nextId' = nextId + 1
    /\ fileLoads' = fileLoads \cup {[id |-> nextId + 1, stage |-> "reading"]}
    /\ alert' = NoAlert
    /\ lastOp' = Op("handleFileChange:accepted")
    /\ UNCHANGED <<variant, pdfDoc, pageNum, totalPages, scale, rotation,
                   urlError, urlLoads, lastUrlId>>

(* handleFileChange, accepting branch: clears the URL status and starts   *)
(* the FileReader; nothing else is touched until the read completes.      *)
HandleFileChangeAccept(file) ==
    /\ FileInputEnabled
    /\ IsValidPdfFile(file)
    /\ nextId < MaxLoads
    /\ urlError' = NoError
    /\ isLoadingUrl' = FALSE
    /\ fileInputValue' = file.name
    /\ nextId' = nextId + 1
    /\ fileLoads' = fileLoads \cup {[id |-> nextId + 1, stage |-> "reading"]}
    /\ alert' = NoAlert
    /\ lastOp' = Op("handleFileChange:accepted")
    /\ UNCHANGED <<variant, pdfDoc, pageNum, totalPages, scale, rotation,
                   urlLoads, lastUrlId>>

handleFileChange(file) ==
    \/ HandleFileChangeReject(file)
    \/ HandleFileChangeAccept(file)

(* reader.onload up to the await: the bytes are handed to getDocument. *)
ReaderOnLoad(l) ==
    /\ l \in fileLoads
    /\ l.stage = "reading"
    /\ fileLoads' = (fileLoads \ {l}) \cup {[l EXCEPT !.stage = "parsing"]}
    /\ alert' = NoAlert
    /\ lastOp' = Op("reader.onload")
    /\ UNCHANGED <<variant, pdfDoc, pageNum, totalPages, scale, rotation,
                   isLoadingUrl, urlError, fileInputValue, urlLoads, nextId, lastUrlId>>

(* reader.onerror: the read failed. *)
ReaderOnError(l) ==
    /\ l \in fileLoads
    /\ l.stage = "reading"
    /\ fileLoads' = fileLoads \ {l}
    /\ alert' = "Error reading file"
    /\ fileInputValue' = ""
    /\ lastOp' = Op("reader.onerror")
    /\ UNCHANGED <<variant, pdfDoc, pageNum, totalPages, scale, rotation,
                   isLoadingUrl, urlError, urlLoads, nextId, lastUrlId>>

(* Variant: setScale(1.0) and setRotation(0) left out. *)
LoadSuccessState_KeepsView(pdf) ==
    /\ pdfDoc' = pdf
    /\ totalPages' = pdf.numPages
    /\ pageNum' = 1
    /\ UNCHANGED <<scale, rotation>>

(* Variant: setTotalPages(pdf.numPages) left out. *)
LoadSuccessState_KeepsTotal(pdf) ==
    /\ pdfDoc' = pdf
    /\ pageNum' = 1
    /\ scale' = InitialScale
    /\ rotation' = 0
    /\ UNCHANGED totalPages

(* The state setters of a successful load, shared by both loaders. *)
LoadSuccessState(pdf) ==
    /\ pdfDoc' = pdf
    /\ totalPages' = pdf.numPages
    /\ pageNum' = 1
    /\ scale' = InitialScale
    /\ rotation' = 0

(* The state setters of a failed load, shared by both loaders. *)
LoadFailureState ==
    /\ pdfDoc' = NoDoc
    /\ totalPages' = 0

(* Variant: the result of a load that is not the latest selection is dropped. *)
FileLoadResolve_LatestWins(l, n) ==
    /\ l \in fileLoads
    /\ l.stage = "parsing"
    /\ IF l.id = nextId
       THEN /\ pdfDoc' = [id |-> l.id, numPages |-> n]
            /\ totalPages' = n
            /\ pageNum' = 1
            /\ scale' = InitialScale
            /\ rotation' = 0
       ELSE UNCHANGED <<pdfDoc, totalPages, pageNum, scale, rotation>>
    /\ fileLoads' = fileLoads \ {l}
    /\ alert' = NoAlert
    /\ lastOp' = OpDoc("fileLoad:ok", [id |-> l.id, numPages |-> n])
    /\ UNCHANGED <<variant, isLoadingUrl, urlError, fileInputValue, urlLoads,
                   nextId, lastUrlId>>

(* reader.onload after the await, promise fulfilled with a document. *)
FileLoadResolve(l, n) ==
    /\ l \in fileLoads
    /\ l.stage = "parsing"
    /\ LoadSuccessState([id |-> l.id, numPages |-> n])
    /\ fileLoads' = fileLoads \ {l}
    /\ alert' = NoAlert
    /\ lastOp' = OpDoc("fileLoad:ok", [id |-> l.id, numPages |-> n])
    /\ UNCHANGED <<variant, isLoadingUrl, urlError, fileInputValue, urlLoads,
                   nextId, lastUrlId>>

(* reader.onload after the await, promise rejected: the catch block. *)
FileLoadReject(l) ==
    /\ l \in fileLoads
    /\ l.stage = "parsing"
    /\ LoadFailureState
    /\ fileLoads' = fileLoads \ {l}
    /\ alert' = "Error loading PDF file: <message>"
    /\ fileInputValue' = ""
    /\ lastOp' = Op("fileLoad:failed")
    /\ UNCHANGED <<variant, pageNum, scale, rotation, isLoadingUrl, urlError,
                   urlLoads, nextId, lastUrlId>>

(* ---- loader: URL (extended variant only) ---- *)

(* loadPdfFromUrl called while the busy flag is set: early return. *)
LoadPdfFromUrlIgnored ==
    /\ isLoadingUrl
    /\ alert' = NoAlert
    /\ lastOp' = Op("loadPdfFromUrl:ignored")
    /\ UNCHANGED <<variant, pdfDoc, pageNum, totalPages, scale, rotation,
                   isLoadingUrl, urlError, fileInputValue, fileLoads, urlLoads,
                   nextId, lastUrlId>>

(* Variant: the busy-flag test left out. *)
LoadPdfFromUrlStart_NoGuard ==
    /\ nextId < MaxLoads
    /\ isLoadingUrl' = TRUE
    /\ urlError' = NoError
    /\ pdfDoc' = NoDoc
    /\ fileInputValue' = ""
    /\ nextId' = nextId + 1
    /\ urlLoads' = urlLoads \cup {nextId + 1}
    /\ lastUrlId' = nextId + 1
    /\ alert' = NoAlert
    /\ lastOp' = Op("loadPdfFromUrl:started")
    /\ UNCHANGED <<variant, pageNum, totalPages, scale, rotation, fileLoads>>

(* Variant: setPdfDoc(null) left out. *)
LoadPdfFromUrlStart_KeepsDoc ==
    /\ ~isLoadingUrl
    /\ nextId < MaxLoads
    /\ isLoadingUrl' = TRUE
    /\ urlError' = NoError
    /\ fileInputValue' = ""
    /\ nextId' = nextId + 1
    /\ urlLoads' = urlLoads \cup {nextId + 1}
    /\ lastUrlId' = nextId + 1
    /\ alert' = NoAlert
    /\ lastOp' = Op("loadPdfFromUrl:started")
    /\ UNCHANGED <<variant, pdfDoc, pageNum, totalPages, scale, rotation,
                   fileLoads>>

(* loadPdfFromUrl up to the await. *)
LoadPdfFromUrlStart ==
    /\ ~isLoadingUrl
    /\ nextId < MaxLoads
    /\ isLoadingUrl' = TRUE
    /\ urlError' = NoError
    /\ pdfDoc' = NoDoc
    /\ fileInputValue' = ""
    /\ nextId' = nextId + 1
    /\ urlLoads' = urlLoads \cup {nextId + 1}
    /\ lastUrlId' = nextId + 1
    /\ alert' = NoAlert
    /\ lastOp' = Op("loadPdfFromUrl:started")
    /\ UNCHANGED <<variant, pageNum, totalPages, scale, rotation, fileLoads>>

loadPdfFromUrl ==
    /\ variant = "extended"
    /\ \/ LoadPdfFromUrlIgnored
       \/ LoadPdfFromUrlStart

(* Variant: the finally block left out. *)
UrlLoadResolve_NoFinally(u, n) ==
    /\ u \in urlLoads
    /\ pdfDoc' = [id |-> u, numPages |-> n]
    /\ totalPages' = n
    /\ pageNum' = 1
    /\ scale' = InitialScale
    /\ rotation' = 0
    /\ urlLoads' = urlLoads \ {u}
    /\ alert' = NoAlert
    /\ lastOp' = OpDoc("urlLoad:ok", [id |-> u, numPages |-> n])
    /\ UNCHANGED <<variant, isLoadingUrl, urlError, fileInputValue, fileLoads,
                   nextId, lastUrlId>>

(* loadPdfFromUrl after the await, promise fulfilled; then finally. *)
UrlLoadResolve(u, n) ==
    /\ u \in urlLoads
    /\ LoadSuccessState([id |-> u, numPages |-> n])
    /\ isLoadingUrl' = FALSE
    /\ urlLoads' = urlLoads \ {u}
    /\ alert' = NoAlert
    /\ lastOp' = OpDoc("urlLoad:ok", [id |-> u, numPages |-> n])
    /\ UNCHANGED <<variant, urlError, fileInputValue, fileLoads, nextId, lastUrlId>>

(* Variant: the exception name is not examined. *)
UrlErrorMessage_NoCategories(failure, url) ==
    IF failure = "NotAnError"
    THEN "Failed to load PDF from URL."
    ELSE "Failed to load PDF from URL." \o " <message>"

(* The message the catch block builds from what was thrown. *)
UrlErrorMessage(failure, url) ==
    IF failure = "NotAnError"
    THEN "Failed to load PDF from URL."
    ELSE IF failure = "MissingPDFException"
    THEN "File not found at URL: " \o url \o ". Or CORS issue."
    ELSE IF failure = "UnexpectedResponseException"
    THEN "Unexpected server response from URL: " \o url \o
         ". Check if the file exists and the server is configured correctly (CORS?)."
    ELSE "Failed to load PDF from URL." \o " <message>"

(* loadPdfFromUrl after the await, promise rejected: catch, then finally. *)
UrlLoadReject(u, failure) ==
    /\ u \in urlLoads
    /\ urlError' = UrlErrorMessage(failure, testPdfUrl)
    /\ LoadFailureState
    /\ isLoadingUrl' = FALSE
    /\ urlLoads' = urlLoads \ {u}
    /\ alert' = NoAlert
    /\ lastOp' = [op |-> "urlLoad:failed:" \o failure, doc |-> NoDoc]
    /\ UNCHANGED <<variant, pageNum, scale, rotation, fileInputValue, fileLoads,
                   nextId, lastUrlId>>

(* ---- what the component renders from its state ---- *)

(* The red error banner above the controls. *)
ShowsUrlErrorBanner == urlError # NoError /\ pdfDoc = NoDoc

(* The content of the pdf-container. *)
ContainerContent ==
    IF pdfDoc # NoDoc THEN "canvas"
    ELSE IF isLoadingUrl THEN "Loading from URL..."
    ELSE IF urlError # NoError THEN "Failed to load PDF."
    ELSE "Select a PDF file or click \"Load Test PDF (from URL)\""

(* ---- page renderer ---- *)

EffectDeps == <<pdfDoc, pageNum, scale, rotation>>

(* The canvas element after a commit: unmounted with the document, a new  *)
(* element when a document appears, the same element otherwise.           *)
CanvasAfterCommit ==
    IF pdfDoc' = NoDoc THEN BlankCanvas(canvas.el)
    ELSE IF pdfDoc = NoDoc THEN BlankCanvas(canvas.el + 1)
    ELSE canvas

(* renderPage up to its first await, with what its closure captured. *)
RenderPageStart(id, el, doc, pageNumber, sc, ro) ==
    [id |-> id, el |-> el, doc |-> doc.id, page |-> pageNumber,
     scale |-> sc, rotation |-> ro, stage |-> "getPage"]

(* Variant: renderPage is given the page number of the previous render. *)
UseEffect_StalePage ==
    /\ canvas' = CanvasAfterCommit
    /\ IF EffectDeps' # EffectDeps /\ pdfDoc' # NoDoc
       THEN /\ nextRender' = nextRender + 1
            /\ renders' = renders \cup
                 {RenderPageStart(nextRender + 1, CanvasAfterCommit.el, pdfDoc',
                                  pageNum, scale', rotation')}
       ELSE UNCHANGED <<renders, nextRender>>
    /\ renderHist.commits < MaxCommits
    /\ renderHist' = [renderHist EXCEPT !.commits = @ + 1]

(* Variant: scale is missing from the dependency list. *)
UseEffect_NoScaleDep ==
    /\ canvas' = CanvasAfterCommit
    /\ IF <<pdfDoc', pageNum', rotation'>> # <<pdfDoc, pageNum, rotation>>
          /\ pdfDoc' # NoDoc
       THEN /\ nextRender' = nextRender + 1
            /\ renders' = renders \cup
                 {RenderPageStart(nextRender + 1, CanvasAfterCommit.el, pdfDoc',
                                  pageNum', scale', rotation')}
       ELSE UNCHANGED <<renders, nextRender>>
    /\ renderHist.commits < MaxCommits
    /\ renderHist' = [renderHist EXCEPT !.commits = @ + 1]

(* The effect run after a commit: when one of its dependencies changed    *)
(* and a document (hence a canvas) is there, it calls renderPage(pageNum). *)
UseEffect ==
    /\ canvas' = CanvasAfterCommit
    /\ IF EffectDeps' # EffectDeps /\ pdfDoc' # NoDoc
       THEN /\ nextRender' = nextRender + 1
            /\ renders' = renders \cup
                 {RenderPageStart(nextRender + 1, CanvasAfterCommit.el, pdfDoc',
                                  pageNum', scale', rotation')}
       ELSE UNCHANGED <<renders, nextRender>>
    /\ renderHist.commits < MaxCommits
    /\ renderHist' = [renderHist EXCEPT !.commits = @ + 1]

(* A render writes to the element it captured; the write shows only if    *)
(* that element is still the mounted one.                                 *)
WritesMountedCanvas(r) == pdfDoc # NoDoc /\ r.el = canvas.el

RenderKey(r) == Key(r.doc, r.page, r.scale, r.rotation)

Stepped(r, fails) ==
    [commits |-> renderHist.commits,
     maxStepped |-> Max(renderHist.maxStepped, r.id),
     overlapped |-> renderHist.overlapped \/ r.id < renderHist.maxStepped,
     failed |-> renderHist.failed \/ fails]

RenderFrame ==
    UNCHANGED <<variant, pdfDoc, pageNum, totalPages, scale, rotation,
                isLoadingUrl, urlError, fileInputValue, fileLoads, urlLoads,
                nextId, lastUrlId, nextRender, zoomRun>>

(* getPage fulfilled, 2D context obtained: the canvas (and the text       *)
(* layer) are resized to the viewport, which clears them; rasterization   *)
(* starts.                                                                *)
RenderGetPageResolve(r) ==
    /\ r \in renders
    /\ r.stage = "getPage"
    /\ renders' = (renders \ {r}) \cup {[r EXCEPT !.stage = "render"]}
    /\ canvas' = IF WritesMountedCanvas(r)
                 THEN [canvas EXCEPT !.image = Blank]
                 ELSE canvas
    /\ renderHist' = Stepped(r, FALSE)
    /\ alert' = NoAlert
    /\ lastOp' = Op("renderPage:sized")
    /\ RenderFrame

(* getPage fulfilled, getContext('2d') returned null: logged, no alert. *)
RenderNoContext(r) ==
    /\ r \in renders
    /\ r.stage = "getPage"
    /\ renders' = renders \ {r}
    /\ renderHist' = Stepped(r, TRUE)
    /\ alert' = NoAlert
    /\ lastOp' = Op("renderPage:noContext")
    /\ UNCHANGED canvas
    /\ RenderFrame

(* Variant: a failed render steps back to the first page. *)
RenderReject_RollsBack(r) ==
    /\ r \in renders
    /\ renders' = renders \ {r}
    /\ renderHist' = Stepped(r, TRUE)
    /\ alert' = "Error rendering page: <message>"
    /\ lastOp' = Op("renderPage:failed")
    /\ pageNum' = 1
    /\ UNCHANGED <<canvas, variant, pdfDoc, totalPages, scale, rotation,
                   isLoadingUrl, urlError, fileInputValue, fileLoads, urlLoads,
                   nextId, lastUrlId, nextRender, zoomRun>>

(* The awaited promise (getPage, render or getTextContent) rejected: the  *)
(* catch block alerts.                                                    *)
RenderReject(r) ==
    /\ r \in renders
    /\ renders' = renders \ {r}
    /\ renderHist' = Stepped(r, TRUE)
    /\ alert' = "Error rendering page: <message>"
    /\ lastOp' = Op("renderPage:failed")
    /\ UNCHANGED canvas
    /\ RenderFrame

(* page.render fulfilled: the page is on the canvas.  The basic component *)
(* is done; the extended one goes on to fetch the text content.           *)
RenderRasterResolve(r) ==
    /\ r \in renders
    /\ r.stage = "render"
    /\ renders' = IF variant = "extended"
                  THEN (renders \ {r}) \cup
                       {[r EXCEPT !.stage = "getTextContent"]}
                  ELSE renders \ {r}
    /\ canvas' = IF WritesMountedCanvas(r)
                 THEN [canvas EXCEPT !.image = RenderKey(r)]
                 ELSE canvas
    /\ renderHist' = Stepped(r, FALSE)
    /\ alert' = NoAlert
    /\ lastOp' = Op("renderPage:painted")
    /\ RenderFrame

(* getTextContent fulfilled: renderTextLayer fills the overlay; the       *)
(* canvas is not touched.                                                 *)
RenderTextResolve(r) ==
    /\ r \in renders
    /\ r.stage = "getTextContent"
    /\ renders' = renders \ {r}
    /\ UNCHANGED canvas
    /\ renderHist' = Stepped(r, FALSE)
    /\ alert' = NoAlert
    /\ lastOp' = Op("renderPage:textLayer")
    /\ RenderFrame

(* ---- specifications ---- *)

(* The handlers without the renderer. *)
NoRender == UNCHANGED <<renders, canvas, nextRender, renderHist, zoomRun>>

Next ==
    \/ \E file \in Files : handleFileChange(file) /\ NoRender
    \/ \E l \in fileLoads : ReaderOnLoad(l) /\ NoRender
    \/ \E l \in fileLoads : ReaderOnError(l) /\ NoRender
    \/ \E l \in fileLoads, n \in 1..MaxPages : FileLoadResolve(l, n) /\ NoRender
    \/ \E l \in fileLoads : FileLoadReject(l) /\ NoRender
    \/ loadPdfFromUrl /\ NoRender
    \/ \E u \in urlLoads, n \in 1..MaxPages : UrlLoadResolve(u, n) /\ NoRender
    \/ \E u \in urlLoads, failure \in UrlFailures :
            UrlLoadReject(u, failure) /\ NoRender
    \/ goToPrevPage /\ NoRender
    \/ goToNextPage /\ NoRender
    \/ zoomIn /\ NoRender
    \/ zoomOut /\ NoRender
    \/ rotateClockwise /\ NoRender
    \/ rotateCounterClockwise /\ NoRender

(* Each handler commits and the effect runs on the committed state. *)
Commit == UseEffect /\ UNCHANGED zoomRun

NextRender ==
    \/ \E file \in Files : handleFileChange(file) /\ Commit
    \/ \E l \in fileLoads : ReaderOnLoad(l) /\ Commit
    \/ \E l \in fileLoads : ReaderOnError(l) /\ Commit
    \/ \E l \in fileLoads, n \in 1..MaxPages : FileLoadResolve(l, n) /\ Commit
    \/ \E l \in fileLoads : FileLoadReject(l) /\ Commit
    \/ loadPdfFromUrl /\ Commit
    \/ \E u \in urlLoads, n \in 1..MaxPages : UrlLoadResolve(u, n) /\ Commit
    \/ \E u \in urlLoads, failure \in UrlFailures :
            UrlLoadReject(u, failure) /\ Commit
    \/ goToPrevPage /\ Commit
    \/ goToNextPage /\ Commit
    \/ zoomIn /\ Commit
    \/ zoomOut /\ Commit
    \/ rotateClockwise /\ Commit
    \/ rotateCounterClockwise /\ Commit
    \/ \E r \in renders : RenderGetPageResolve(r)
    \/ \E r \in renders : RenderNoContext(r)
    \/ \E r \in renders : RenderReject(r)
    \/ \E r \in renders : RenderRasterResolve(r)
    \/ \E r \in renders : RenderTextResolve(r)

(* The renderer is explored from states on the way of a first load: the  *)
(* initial state, a file load being read, a file load being parsed, a URL *)
(* load in flight, the state right after the load succeeded (its render   *)
(* in flight), and a loaded document that has been zoomed, turned and     *)
(* paged with every render finished in order.                             *)
InitPhases == {"fresh", "reading", "parsing", "url", "loaded", "viewed"}

InitRender ==
    \E phase \in InitPhases, n \in 1..MaxPages :
      /\ variant \in Variants
      /\ phase = "url" => variant = "extended"
      /\ phase \notin {"loaded", "viewed"} => n = 1
      /\ pdfDoc = IF phase \in {"loaded", "viewed"}
                  THEN [id |-> 1, numPages |-> n] ELSE NoDoc
      /\ totalPages = pdfDoc.numPages
      /\ pageNum \in IF phase = "viewed" THEN 1..n ELSE {1}
      /\ scale \in IF phase = "viewed" THEN {MinScale, MaxScale}
                                       ELSE {InitialScale}
      /\ rotation \in IF phase = "viewed" THEN {0, 270} ELSE {0}
      /\ isLoadingUrl = (phase = "url")
      /\ urlError = NoError
      /\ fileInputValue = IF phase \in {"fresh", "url"} THEN "" ELSE "a.pdf"
      /\ fileLoads = IF phase \in {"reading", "parsing"}
                     THEN {[id |-> 1, stage |-> phase]} ELSE {}
      /\ urlLoads = IF phase = "url" THEN {1} ELSE {}
      /\ nextId = IF phase = "fresh" THEN 0 ELSE 1
      /\ lastUrlId = IF phase = "url" THEN 1 ELSE 0
      /\ alert = NoAlert
      /\ lastOp = IF phase \in {"fresh", "viewed"} THEN Op("init")
                  ELSE IF phase = "reading" THEN Op("handleFileChange:accepted")
                  ELSE IF phase = "parsing" THEN Op("reader.onload")
                  ELSE IF phase = "url" THEN Op("loadPdfFromUrl:started")
                  ELSE OpDoc("fileLoad:ok", pdfDoc)
      /\ renders = IF phase = "loaded"
                   THEN {RenderPageStart(1, 1, pdfDoc, 1, InitialScale, 0)}
                   ELSE {}
      /\ canvas = IF phase = "viewed"
                  THEN [el |-> 1,
                        image |-> Key(1, pageNum, scale, rotation)]
                  ELSE IF phase = "loaded" THEN BlankCanvas(1)
                  ELSE BlankCanvas(0)
      /\ nextRender = IF phase \in {"loaded", "viewed"} THEN 1 ELSE 0
      /\ renderHist = [commits |-> 0,
                       maxStepped |-> IF phase = "viewed" THEN 1 ELSE 0,
                       overlapped |-> FALSE, failed |-> FALSE]
      /\ zoomRun = 0

SpecRender == InitRender /\ [][NextRender]_vars

(* zoomIn calls made in a row since the last successful load. *)
ZoomRunAfter ==
    IF lastOp'.op \in {"fileLoad:ok", "urlLoad:ok"} THEN 0
    ELSE IF lastOp'.op = "zoomIn" /\ zoomRun >= 0
         THEN Min(zoomRun + 1, MaxZoomRun)
    ELSE IF lastOp'.op = "zoomOut" THEN -1
    ELSE zoomRun

CountZoom ==
    /\ zoomRun' = ZoomRunAfter
    /\ UNCHANGED renderVars

(* Loading a file, then zooming and paging. *)
NextZoom ==
    \/ \E file \in Files : handleFileChange(file) /\ CountZoom
    \/ \E l \in fileLoads : ReaderOnLoad(l) /\ CountZoom
    \/ \E l \in fileLoads, n \in 1..MaxPages : FileLoadResolve(l, n) /\ CountZoom
    \/ goToPrevPage /\ CountZoom
    \/ goToNextPage /\ CountZoom
    \/ zoomIn /\ CountZoom
    \/ zoomOut /\ CountZoom

SpecZoom == Init /\ [][NextZoom]_vars

Spec == Init /\ [][Next]_vars

TypeOK ==
    /\ variant \in Variants
    /\ pdfDoc \in [id : 0..MaxLoads, numPages : 0..MaxPages]
    /\ pageNum \in Int
    /\ totalPages \in 0..MaxPages
    /\ scale \in Int
    /\ rotation \in Int
    /\ isLoadingUrl \in BOOLEAN
    /\ fileInputValue \in {f.name : f \in Files}
    /\ fileLoads \subseteq [id : 1..MaxLoads, stage : {"reading", "parsing"}]
    /\ urlLoads \subseteq 1..MaxLoads
    /\ nextId \in 0..MaxLoads
    /\ lastUrlId \in 0..MaxLoads
    /\ nextRender \in 0..(MaxCommits + 1)
    /\ \A r \in renders : r.id \in 1..nextRender
    /\ canvas.el \in 0..MaxLoads
    /\ zoomRun \in -1..MaxZoomRun

(* ======================= properties ======================= *)

DocLoaded == pdfDoc # NoDoc

(* C1: whenever a document handle is present, the current page number is  *)
(* between 1 and totalPages, whatever loads, navigation, zoom and         *)
(* rotation steps and load completions have happened.                     *)
C1_PageWithinDocument ==
    DocLoaded => (1 <= pageNum /\ pageNum <= totalPages)

(* goToNextPage invoked on the last page of a multi-page document while a *)
(* file load is still in flight.                                          *)
C1_Witness ==
    /\ DocLoaded
    /\ lastOp.op = "goToNextPage"
    /\ pageNum = totalPages
    /\ totalPages > 1
    /\ fileLoads # {}

(* C2: scale stays within [0.25, 3.0] inclusive in every reachable state. *)
C2_ScaleWithinBounds == MinScale <= scale /\ scale <= MaxScale

(* zoomOut has just acted and the scale sits on the lower bound. *)
C2_Witness == lastOp.op = "zoomOut" /\ scale = MinScale

(* C3: rotation is one of 0, 90, 180, 270 in every reachable state. *)
C3_RotationQuarterTurns == rotation \in {0, 90, 180, 270}

(* rotateCounterClockwise has just wrapped from 0 to 270. *)
C3_Witness == lastOp.op = "rotateCounterClockwise" /\ rotation = 270

(* C4: goToPrevPage keeps the page at 1 and otherwise decrements it by 1; *)
(* goToNextPage keeps the page at totalPages and otherwise increments it  *)
(* by 1; neither changes scale, rotation, totalPages or the handle.       *)
C4_PageStep ==
    [][ /\ lastOp'.op = "goToPrevPage" =>
              /\ pageNum' = (IF pageNum = 1 THEN pageNum ELSE pageNum - 1)
              /\ UNCHANGED <<scale, rotation, totalPages, pdfDoc>>
        /\ lastOp'.op = "goToNextPage" =>
              /\ pageNum' = (IF pageNum = totalPages THEN pageNum
                                                     ELSE pageNum + 1)
              /\ UNCHANGED <<scale, rotation, totalPages, pdfDoc>>
      ]_vars

(* goToPrevPage has just acted on a one-page document: the no-op case. *)
C4_Witness == DocLoaded /\ totalPages = 1 /\ lastOp.op = "goToPrevPage"

(* C5: right after a load completes successfully (file or URL), the       *)
(* handle is the document the library returned, totalPages is its page    *)
(* count, page is 1, scale is 1.0 and rotation is 0.                      *)
C5_LoadSuccessResets ==
    lastOp.op \in {"fileLoad:ok", "urlLoad:ok"} =>
        /\ lastOp.doc # NoDoc
        /\ pdfDoc = lastOp.doc
        /\ totalPages = lastOp.doc.numPages
        /\ pageNum = 1
        /\ scale = InitialScale
        /\ rotation = 0

(* The second load to be started completes successfully from a URL. *)
C5_Witness == lastOp.op = "urlLoad:ok" /\ pdfDoc.id = 2 /\ totalPages > 1

(* C6: selecting a missing or non-PDF file changes neither the view state *)
(* nor the load status and starts no load; the invalid-file alert is      *)
(* raised and the file input is cleared.                                  *)
C6_InvalidFileChangesNothing ==
    [][ lastOp'.op = "handleFileChange:rejected" =>
            /\ UNCHANGED <<pdfDoc, totalPages, pageNum, scale, rotation,
                           isLoadingUrl, urlError, fileLoads, urlLoads>>
            /\ alert' = "Please select a valid PDF file"
            /\ fileInputValue' = ""
      ]_vars

(* An invalid file was selected while a URL error was set. *)
C6_Witness ==
    lastOp.op = "handleFileChange:rejected" /\ urlError # NoError

(* C7: at most one URL load is in flight, and invoking the URL loader     *)
(* while one is in flight starts no load and changes no state.            *)
C7_UrlLoadGuarded ==
    [][ /\ Cardinality(urlLoads') <= 1
        /\ (/\ lastOp'.op \in {"loadPdfFromUrl:ignored",
                               "loadPdfFromUrl:started"}
            /\ urlLoads # {}) =>
              UNCHANGED <<pdfDoc, totalPages, pageNum, scale, rotation,
                          isLoadingUrl, urlError, urlLoads, fileLoads,
                          fileInputValue>>
      ]_vars

(* The URL loader was invoked while a URL load was in flight. *)
C7_Witness == lastOp.op = "loadPdfFromUrl:ignored" /\ urlLoads # {}

(* C8 (as claimed): after a file load fails, by a parse error or by a     *)
(* read error, the handle is absent, totalPages is 0, an alert was raised *)
(* and the file input is cleared.                                         *)
C8_FileFailureClears ==
    lastOp.op \in {"fileLoad:failed", "reader.onerror"} =>
        /\ pdfDoc = NoDoc
        /\ totalPages = 0
        /\ alert # NoAlert
        /\ fileInputValue = ""

(* C9: after a URL load fails the handle is absent, totalPages is 0, the  *)
(* loading flag is false, the URL error is a non-empty message of the     *)
(* category of the failure, no alert is raised and page, scale and        *)
(* rotation are unchanged.                                                *)
C9_UrlFailure ==
    [][ \A f \in UrlFailures :
          lastOp'.op = "urlLoad:failed:" \o f =>
            /\ pdfDoc' = NoDoc
            /\ totalPages' = 0
            /\ ~isLoadingUrl'
            /\ urlError' \notin {NoError, ""}
            /\ f = "MissingPDFException" =>
                 urlError' = "File not found at URL: /test.pdf. Or CORS issue."
            /\ f = "UnexpectedResponseException" =>
                 urlError' = "Unexpected server response from URL: /test.pdf. Check if the file exists and the server is configured correctly (CORS?)."
            /\ f \in {"OtherError", "NotAnError"} =>
                 urlError' \in {"Failed to load PDF from URL.",
                                "Failed to load PDF from URL. <message>"}
            /\ alert' = NoAlert
            /\ UNCHANGED <<pageNum, scale, rotation>>
      ]_vars

(* A URL load of a missing resource failed after the view had been moved  *)
(* away from its defaults.                                                *)
C9_Witness ==
    /\ lastOp.op = "urlLoad:failed:MissingPDFException"
    /\ scale # InitialScale
    /\ rotation # 0

(* C10 (as claimed): in the extended variant, whenever the handle is      *)
(* present the loading flag is false and the URL error is absent.         *)
C10_StatusExcludesDocument ==
    (variant = "extended" /\ DocLoaded) =>
        (~isLoadingUrl /\ urlError = NoError)

(* C10 (amended): in the extended variant, whenever the handle is present *)
(* and no URL load has been started after the load that produced it, the  *)
(* loading flag is false and the URL error is absent; and whenever the    *)
(* handle is present, neither the URL error nor the loading placeholder   *)
(* is rendered.                                                           *)
C10_StatusExcludesFreshDocument ==
    /\ (variant = "extended" /\ DocLoaded /\ pdfDoc.id >= lastUrlId) =>
            (~isLoadingUrl /\ urlError = NoError)
    /\ (variant = "extended" /\ DocLoaded) =>
            (~ShowsUrlErrorBanner /\ ContainerContent = "canvas")

(* A document loaded from a file selected after a URL load had failed. *)
C10_Witness ==
    /\ variant = "extended"
    /\ lastOp.op = "fileLoad:ok"
    /\ lastUrlId > 0
    /\ pdfDoc.id > lastUrlId

(* C12: zoomIn sets scale to min(s + 0.2, 3.0) and zoomOut sets it to     *)
(* max(s - 0.2, 0.25): the change is exactly 0.2 unless that would leave  *)
(* [0.25, 3.0], in which case scale becomes the bound; page, rotation,    *)
(* totalPages and the handle are unchanged.                               *)
C12_ZoomStep ==
    [][ /\ lastOp'.op = "zoomIn" =>
              /\ scale' = (IF scale + 20 <= 300 THEN scale + 20 ELSE 300)
              /\ UNCHANGED <<pageNum, rotation, totalPages, pdfDoc>>
        /\ lastOp'.op = "zoomOut" =>
              /\ scale' = (IF scale - 20 >= 25 THEN scale - 20 ELSE 25)
              /\ UNCHANGED <<pageNum, rotation, totalPages, pdfDoc>>
      ]_vars

(* zoomIn has just acted and the scale sits on the upper bound. *)
C12_Witness == lastOp.op = "zoomIn" /\ scale = MaxScale

(* C13: rotateClockwise yields (r + 90) mod 360 and                       *)
(* rotateCounterClockwise yields (r - 90) mod 360 taken in [0, 360); four *)
(* turns the same way return to r, and a turn followed by the opposite    *)
(* turn, in either order, is the identity.                                *)
C13_RotationAlgebra ==
    [][ /\ lastOp'.op = "rotateClockwise" =>
              rotation' = (rotation + 90) % 360
        /\ lastOp'.op = "rotateCounterClockwise" =>
              rotation' = (rotation - 90) % 360
        /\ RotateCW(RotateCW(RotateCW(RotateCW(rotation')))) = rotation'
        /\ RotateCCW(RotateCCW(RotateCCW(RotateCCW(rotation')))) = rotation'
        /\ RotateCCW(RotateCW(rotation')) = rotation'
        /\ RotateCW(RotateCCW(rotation')) = rotation'
      ]_vars

(* rotateClockwise has just wrapped from 270 to 0. *)
C13_Witness == lastOp.op = "rotateClockwise" /\ rotation = 0

(* C14 (as claimed): while any load, file or URL, is in flight the handle *)
(* is absent.                                                             *)
C14_NoDocumentWhileLoading ==
    (fileLoads # {} \/ urlLoads # {}) => pdfDoc = NoDoc

(* C14 (amended): accepting a URL load discards the handle, and while     *)
(* that URL load is in flight the handle can become present again only by *)
(* the success of a file load that was already in flight; accepting a     *)
(* file load leaves the handle as it is.                                  *)
C14_UrlLoadDiscardsDocument ==
    [][ /\ lastOp'.op = "loadPdfFromUrl:started" => pdfDoc' = NoDoc
        /\ (/\ urlLoads # {} /\ urlLoads' = urlLoads
            /\ pdfDoc' # pdfDoc /\ pdfDoc' # NoDoc) =>
              (lastOp'.op = "fileLoad:ok" /\ pdfDoc'.id < lastUrlId)
        /\ lastOp'.op = "handleFileChange:accepted" => pdfDoc' = pdfDoc
      ]_vars

(* A URL load has just been accepted over a loaded document. *)
C14_Witness ==
    /\ lastOp.op = "loadPdfFromUrl:started"
    /\ pdfDoc = NoDoc
    /\ totalPages > 0

(* C18: a file selected while an earlier file load is in flight is        *)
(* accepted and the earlier load stays in flight; every successful        *)
(* completion overwrites the handle, totalPages and the view, whichever   *)
(* load it belongs to; the handle changes at no other step than a load    *)
(* completion or the start of a URL load, so the handle held once all     *)
(* loads have settled is that of the completion that came last.           *)
C18_LastCompletionWins ==
    [][ /\ lastOp'.op = "handleFileChange:accepted" =>
              /\ fileLoads \subseteq fileLoads'
              /\ Cardinality(fileLoads') = Cardinality(fileLoads) + 1
        /\ lastOp'.op = "fileLoad:ok" =>
              /\ pdfDoc' = lastOp'.doc
              /\ totalPages' = lastOp'.doc.numPages
              /\ pageNum' = 1 /\ scale' = 100 /\ rotation' = 0
              /\ \A l \in fileLoads' : l \in fileLoads
        /\ pdfDoc' # pdfDoc =>
              \/ lastOp'.op \in {"fileLoad:ok", "fileLoad:failed", "urlLoad:ok",
                                 "loadPdfFromUrl:started"}
              \/ \E f \in UrlFailures : lastOp'.op = "urlLoad:failed:" \o f
      ]_vars

(* Two files were selected, both loads succeeded (the file input still    *)
(* holds the selection, which every failure path clears), and the handle  *)
(* held at the end is that of the first selection.                        *)
C18_Witness ==
    /\ variant = "basic"
    /\ nextId = 2
    /\ fileLoads = {}
    /\ fileInputValue = "a.pdf"
    /\ lastOp.op = "fileLoad:ok"
    /\ pdfDoc.id = 1

(* C19: the loading flag is true exactly while a URL load is in flight:   *)
(* set when the load is accepted, cleared by nothing else while it is     *)
(* pending, and false again as soon as the load call has settled.         *)
C19_FlagIffUrlLoadInFlight == isLoadingUrl <=> (urlLoads # {})

(* A URL load is pending while an earlier file load has just completed.   *)
C19_Witness ==
    /\ isLoadingUrl
    /\ urlLoads # {}
    /\ lastOp.op \in {"fileLoad:ok", "fileLoad:failed", "reader.onerror"}

(* C20: whenever a handle is present, totalPages is the page count of     *)
(* that same handle.                                                      *)
C20_TotalPagesOfHandle == DocLoaded => totalPages = pdfDoc.numPages

(* The second load replaced a document with one of a different length     *)
(* while another load is still in flight.                                 *)
C20_Witness ==
    /\ DocLoaded
    /\ pdfDoc.id = 1
    /\ pdfDoc.numPages = 1
    /\ fileLoads # {}
    /\ lastOp.op = "fileLoad:ok"

(* C11 (as claimed): five zoomIn calls in a row on a freshly loaded       *)
(* document (scale 1.0) leave the scale at 3.0.                           *)
C11_FiveZoomInsReachMax == zoomRun = 5 => scale = MaxScale

(* C11 (amended): five zoomIn calls in a row from 1.0 leave the scale at  *)
(* 2.0; the bound 3.0 is reached by the tenth call and not before.        *)
C11_FiveZoomInsReachTwo ==
    /\ zoomRun = 5 => scale = 200
    /\ zoomRun = 10 => scale = MaxScale
    /\ zoomRun \in 0..9 => scale < MaxScale

(* The fifth zoomIn in a row has just acted. *)
C11_Witness == zoomRun = 5 /\ lastOp.op = "zoomIn"

RenderIds(S) == {r.id : r \in S}

(* C15: a commit that changes (handle, page, scale, rotation) and leaves  *)
(* a document loaded starts exactly one renderPage invocation, for the    *)
(* new page, scale and rotation; a step that changes none of the four, or *)
(* that leaves the handle absent, starts none.                            *)
C15_RenderOnChange ==
    [][ LET started == {r \in renders' : r.id \notin RenderIds(renders)}
        IN  IF EffectDeps' # EffectDeps /\ pdfDoc' # NoDoc
            THEN started = {[id |-> nextRender + 1, el |-> canvas'.el,
                             doc |-> pdfDoc'.id, page |-> pageNum',
                             scale |-> scale', rotation |-> rotation',
                             stage |-> "getPage"]}
            ELSE started = {}
      ]_vars

(* goToNextPage has just moved to page 2 and a render of page 2 is        *)
(* awaiting its page.                                                     *)
C15_Witness ==
    /\ lastOp.op = "goToNextPage"
    /\ pageNum = 2
    /\ \E r \in renders :
          /\ r.stage = "getPage"
          /\ RenderKey(r) = Key(pdfDoc.id, 2, scale, rotation)

RenderSteps == {"renderPage:sized", "renderPage:noContext",
                "renderPage:failed", "renderPage:painted",
                "renderPage:textLayer"}

(* C16: no step of a renderPage invocation, successful or failed, changes *)
(* page, scale, rotation, totalPages or the handle.                       *)
C16_RenderLeavesViewState ==
    [][ (\/ lastOp'.op \in RenderSteps
         \/ (RenderIds(renders') # RenderIds(renders)
               /\ nextRender' = nextRender)) =>
            UNCHANGED <<pageNum, scale, rotation, totalPages, pdfDoc>>
      ]_vars

(* The render of page 2 has just failed and the view stays on page 2. *)
C16_Witness ==
    /\ lastOp.op = "renderPage:failed"
    /\ DocLoaded
    /\ pageNum = 2
    /\ renders = {}

CurrentKey == Key(pdfDoc.id, pageNum, scale, rotation)

(* C17: the canvas can be left showing something else than the current    *)
(* view only by renders that overlapped out of order or failed: when no   *)
(* render is in flight, none has failed and none has run after a newer    *)
(* one, the canvas shows the current view.  (The witness is the state the *)
(* claim says is reachable.)                                              *)
C17_InOrderRendersMatchView ==
    (/\ DocLoaded
     /\ renders = {}
     /\ ~renderHist.overlapped
     /\ ~renderHist.failed) =>
        canvas.image = CurrentKey

(* Two renders overlapped, the older finished last, none failed, none is  *)
(* in flight, and the canvas shows a view that is not the current one.    *)
C17_Witness ==
    /\ DocLoaded
    /\ renders = {}
    /\ renderHist.overlapped
    /\ ~renderHist.failed
    /\ canvas.image # Blank
    /\ canvas.image # CurrentKey
====
